---------------------------- MODULE Spec2Model ----------------------------
(***************************************************************************)
(* Model of the two programs of the repository,                            *)
(*   src/cpp/reverse_engineer.cpp                  ("reverse_engineer")    *)
(*   src/cpp/reverse_engineer_confusion_matrix.cpp ("confusion_matrix")    *)
(* which reverse engineer every confusion matrix (TP, FN, FP, TN) that a   *)
(* pair of class sizes and a rounded target accuracy allow, and keep the   *)
(* ones matching the optional sensitivity, specificity, f1 and precision   *)
(* targets.                                                                *)
(*                                                                         *)
(* Doubles.  A target value t, already rounded to decimal_places digits,   *)
(* is held as the integer t * 10^decimal_places; the sentinel -1.0 is      *)
(* therefore -(10^decimal_places).  A quotient of two integer-valued       *)
(* doubles is held exactly (numerator, denominator) or as NaN (0/0) or an  *)
(* infinity (x/0), and round_dp rounds it half away from zero.  For every  *)
(* quotient with |numerator| <= 40, denominator <= 39 and at most three    *)
(* decimal places the IEEE computation of round_dp and the comparison with *)
(* the decimal literal agree with this exact arithmetic (the first tie     *)
(* that the binary representation breaks the other way is 23/40 at two     *)
(* decimal places); all inputs below stay inside that range.               *)
(***************************************************************************)
EXTENDS Integers, Sequences, FiniteSets

VARIABLES
    program,            \* which of the two source files runs
    class_a_count, class_b_count, decimal_places,
    target_accuracy, target_sensitivity, target_specificity,
    target_f1, target_precision,
    total_sample_size,  \* argument of find_positives_vs_negatives
    fp_i,               \* loop index i of find_positives_vs_negatives
    min_max_values,     \* the static int[4] of find_positives_vs_negatives
    combinations,       \* local of find_matrices
    fm_i,               \* loop index i of find_matrices
    TP, FN, FP, TN,     \* locals of find_matrices
    matrices,           \* the vector of confusion_matrix (built, then filtered)
    file,               \* the rows reverse_engineer writes to the csv file
    enumerated,         \* history: every matrix find_matrices generated
    stage,              \* confusion_matrix: next optional metric to filter by
    calls,              \* completed calls of find_positives_vs_negatives
    pc

vars == <<program, class_a_count, class_b_count, decimal_places,
          target_accuracy, target_sensitivity, target_specificity,
          target_f1, target_precision, total_sample_size, fp_i,
          min_max_values, combinations, fm_i, TP, FN, FP, TN,
          matrices, file, enumerated, stage, calls, pc>>

inputs == <<program, class_a_count, class_b_count, target_sensitivity,
            target_specificity, target_f1, target_precision>>

enumeration == <<combinations, fm_i, TP, FN, FP, TN, matrices, file,
                 enumerated, stage>>

----------------------------------------------------------------------------
(* Bounds of the model. *)

MaxClassA == 3
MaxClassB == 3
MaxCalls == 2

Programs == {"reverse_engineer", "confusion_matrix"}

DecimalPlaces == {0, 1}

Metrics == <<"sensitivity", "specificity", "f1", "precision">>

----------------------------------------------------------------------------
(* Arithmetic on doubles. *)

RECURSIVE Pow10(_)
Pow10(d) == IF d = 0 THEN 1 ELSE 10 * Pow10(d - 1)

Abs(x) == IF x < 0 THEN -x ELSE x

Range(s) == {s[j] : j \in 1..Len(s)}

\* The "ignore this target" value -1.0 in units of 10^-decimal_places.
Unconstrained(dp) == -Pow10(dp)

\* Mutant: a zero denominator yields 0 instead of NaN or an infinity.
double_div_zero_guarded(num, den) ==
    IF den = 0
      THEN [kind |-> "num", n |-> 0, d |-> 1]
      ELSE [kind |-> "num", n |-> num, d |-> den]

\* The double division num / den of two integer-valued doubles.
double_div(num, den) ==
    IF den = 0
      THEN [kind |-> IF num = 0 THEN "nan" ELSE "inf", n |-> num, d |-> 0]
      ELSE [kind |-> "num", n |-> num, d |-> den]

\* round(x * 10^decimal_places) / 10^decimal_places, in units of
\* 10^-decimal_places; round() resolves ties away from zero and NaN and the
\* infinities pass through.
round_dp(number, dp) ==
    IF number.kind # "num"
      THEN [kind |-> number.kind, v |-> 0]
      ELSE LET s == IF (number.n < 0) = (number.d < 0) THEN 1 ELSE -1
               n == Abs(number.n) * Pow10(dp)
               d == Abs(number.d)
           IN  [kind |-> "num", v |-> s * ((2 * n + d) \div (2 * d))]

\* The comparison rounded == target of doubles (never true of NaN).
double_eq(rounded, target) == rounded.kind = "num" /\ rounded.v = target

----------------------------------------------------------------------------
(* find_positives_vs_negatives *)

\* Mutant: the second pair is written once and keeps the second highest match.
record_match_keep_first(mm, correct_preds, incorrect_preds) ==
    IF mm[1] = -1
      THEN [mm EXCEPT ![1] = correct_preds, ![2] = incorrect_preds]
      ELSE IF mm[3] = -1
             THEN [mm EXCEPT ![3] = correct_preds, ![4] = incorrect_preds]
             ELSE mm

\* The body of the if (rounded accuracy == target) of the scan.
record_match(mm, correct_preds, incorrect_preds) ==
    IF mm[1] = -1
      THEN [mm EXCEPT ![1] = correct_preds, ![2] = incorrect_preds]
      ELSE [mm EXCEPT ![3] = correct_preds, ![4] = incorrect_preds]

\* round_dp(correct / total, decimal_places) == target_accuracy
accuracy_matches(correct_preds, total, target, dp) ==
    double_eq(round_dp(double_div(correct_preds, total), dp), target)

\* The scan of correct_preds from total_sample_size down to 1, from buffer mm.
RECURSIVE scan(_, _, _, _, _)
scan(mm, j, total, target, dp) ==
    IF j = 0 THEN mm
    ELSE scan(IF accuracy_matches(j, total, target, dp)
                THEN record_match(mm, j, total - j) ELSE mm,
              j - 1, total, target, dp)

\* What a first call returns: the scan from the buffer's initial value.
first_call(total, target, dp) == scan(<<-1, -1, -1, -1>>, total, total, target, dp)

----------------------------------------------------------------------------
(* reverse_engineer_confusion_matrices *)

\* Mutant: the exit test compares with 0 instead of -1.
no_combinations_zero(mm) == mm[1] = 0

\* if (*(min_max_values) == -1): no combination achieves the accuracy.
no_combinations(mm) == mm[1] = -1

----------------------------------------------------------------------------
(* check_metric *)

sensitivity(m) == double_div(m[1], m[1] + m[2])
specificity(m) == double_div(m[4], m[4] + m[3])
f1(m) == double_div(2 * m[1], 2 * m[1] + m[3] + m[2])
precision(m) == double_div(m[1], m[1] + m[3])

metric(m, metric_name) ==
    CASE metric_name = "sensitivity" -> sensitivity(m)
      [] metric_name = "specificity" -> specificity(m)
      [] metric_name = "f1" -> f1(m)
      [] metric_name = "precision" -> precision(m)

\* confusion_matrix: the matrices of the vector whose rounded metric equals
\* target_value, in order.
check_metric_vector(ms, target_value, dp, metric_name) ==
    LET keep(m) == double_eq(round_dp(metric(m, metric_name), dp), target_value)
    IN  SelectSeq(ms, keep)

\* reverse_engineer: one matrix against all four targets; each test also
\* fails when its target is -1.
check_metric_all(m, t_sensitivity, t_specificity, t_f1, t_precision, dp) ==
    /\ ~(\/ ~double_eq(round_dp(sensitivity(m), dp), t_sensitivity)
         \/ t_sensitivity = Unconstrained(dp))
    /\ ~(\/ ~double_eq(round_dp(specificity(m), dp), t_specificity)
         \/ t_specificity = Unconstrained(dp))
    /\ ~(\/ ~double_eq(round_dp(f1(m), dp), t_f1)
         \/ t_f1 = Unconstrained(dp))
    /\ ~(\/ ~double_eq(round_dp(precision(m), dp), t_precision)
         \/ t_precision = Unconstrained(dp))

----------------------------------------------------------------------------
(* find_matrices *)

\* Mutant: one offset too many.
combinations_of_plus_one(mm) ==
    IF mm[3] # -1 THEN mm[1] - mm[3] + 2 ELSE 1

\* The number of offsets: max correct - min correct + 1, or 1.
combinations_of(mm) ==
    IF mm[3] # -1 THEN mm[1] - mm[3] + 1 ELSE 1

\* Mutant: TN is derived from the offset's incorrect count, not from FP.
base_matrix_tn_from_incorrect(a, b, mm, i) ==
    LET tp == IF mm[1] - i < a THEN mm[1] - i ELSE a - i
        fn == a - tp
        fp == mm[2] + i - fn
    IN  <<tp, fn, fp, b - (mm[2] + i)>>

\* The base matrix of offset i.
base_matrix(a, b, mm, i) ==
    LET tp == IF mm[1] - i < a THEN mm[1] - i ELSE a - i
        fn == a - tp
        fp == mm[2] + i - fn
    IN  <<tp, fn, fp, b - fp>>

\* Mutant: the sweep stops one step early.
sweep_continues_short(tp, tn, b) == tp > 0 /\ tn + 1 < b

\* while (TP > 0 && TN < class_b_count)
sweep_continues(tp, tn, b) == tp > 0 /\ tn < b

\* What happens to a generated matrix m: confusion_matrix pushes it on the
\* vector, reverse_engineer writes its row when check_metric accepts it.
Emit(m) ==
    /\ enumerated' = Append(enumerated, m)
    /\ IF program = "confusion_matrix"
         THEN /\ matrices' = Append(matrices, m)
              /\ file' = file
         ELSE /\ matrices' = matrices
              /\ file' = IF check_metric_all(m, target_sensitivity,
                                             target_specificity, target_f1,
                                             target_precision, decimal_places)
                           THEN Append(file, m) ELSE file

----------------------------------------------------------------------------
(* Inputs *)

\* The optional targets tried: unconstrained, 0, 1 and (one decimal place) 0.5.
OptionalTargets(dp) ==
    {Unconstrained(dp), 0, Pow10(dp)} \cup
    (IF dp > 0 THEN {Pow10(dp) \div 2} ELSE {})

\* 10 and 10 samples, two decimal places, accuracy 0.75, no other target.
ScenarioInputs ==
    [a |-> 10, b |-> 10, dp |-> 2, accuracy |-> 75,
     sensitivity |-> Unconstrained(2), specificity |-> Unconstrained(2),
     f1 |-> Unconstrained(2), precision |-> Unconstrained(2)]

\* 3 and 3 samples, two decimal places, accuracy 0.99, no other target.
NoMatchInputs ==
    [a |-> 3, b |-> 3, dp |-> 2, accuracy |-> 99,
     sensitivity |-> Unconstrained(2), specificity |-> Unconstrained(2),
     f1 |-> Unconstrained(2), precision |-> Unconstrained(2)]

BoundedInputs ==
    UNION {[a : 1..MaxClassA, b : 1..MaxClassB, dp : {dp},
            accuracy : 0..Pow10(dp),
            sensitivity : OptionalTargets(dp), specificity : OptionalTargets(dp),
            f1 : OptionalTargets(dp), precision : OptionalTargets(dp)]
           : dp \in DecimalPlaces}

\* The same with every optional target unconstrained.
AccuracyOnlyInputs ==
    {in \in BoundedInputs :
        /\ in.sensitivity = Unconstrained(in.dp)
        /\ in.specificity = Unconstrained(in.dp)
        /\ in.f1 = Unconstrained(in.dp)
        /\ in.precision = Unconstrained(in.dp)}

\* The state main() calls reverse_engineer_confusion_matrices in.
Start(in) ==
    /\ program \in Programs
    /\ class_a_count = in.a
    /\ class_b_count = in.b
    /\ decimal_places = in.dp
    /\ target_accuracy = in.accuracy
    /\ target_sensitivity = in.sensitivity
    /\ target_specificity = in.specificity
    /\ target_f1 = in.f1
    /\ target_precision = in.precision
    /\ total_sample_size = 0
    /\ fp_i = 0
    /\ min_max_values = <<-1, -1, -1, -1>>
    /\ combinations = 0
    /\ fm_i = 0
    /\ TP = 0 /\ FN = 0 /\ FP = 0 /\ TN = 0
    /\ matrices = <<>>
    /\ file = <<>>
    /\ enumerated = <<>>
    /\ stage = 1
    /\ calls = 0
    /\ pc = "main"

Init == \E in \in BoundedInputs \cup {ScenarioInputs, NoMatchInputs} : Start(in)

InitCalls == \E in \in AccuracyOnlyInputs : Start(in)

----------------------------------------------------------------------------
(* Steps *)

\* reverse_engineer_confusion_matrices up to the call of the range finder.
reverse_engineer_confusion_matrices ==
    /\ pc = "main"
    /\ total_sample_size' = class_a_count + class_b_count
    /\ fp_i' = class_a_count + class_b_count
    /\ pc' = "find"
    /\ UNCHANGED <<inputs, decimal_places, target_accuracy, min_max_values,
                   enumeration, calls>>

\* One iteration of the scan of find_positives_vs_negatives.
find_positives_vs_negatives_loop ==
    /\ pc = "find"
    /\ fp_i > 0
    /\ min_max_values' =
         IF accuracy_matches(fp_i, total_sample_size, target_accuracy,
                             decimal_places)
           THEN record_match(min_max_values, fp_i, total_sample_size - fp_i)
           ELSE min_max_values
    /\ fp_i' = fp_i - 1
    /\ UNCHANGED <<inputs, decimal_places, target_accuracy, total_sample_size,
                   enumeration, calls, pc>>

\* The scan is over: return min_max_values.
find_positives_vs_negatives_return ==
    /\ pc = "find"
    /\ fp_i = 0
    /\ calls' = calls + 1
    /\ pc' = "returned"
    /\ UNCHANGED <<inputs, decimal_places, target_accuracy, total_sample_size,
                   fp_i, min_max_values, enumeration>>

\* A further call of find_positives_vs_negatives in the same process, with
\* any arguments; the static buffer is what the last call left.
find_positives_vs_negatives_again ==
    /\ pc = "returned"
    /\ calls < MaxCalls
    /\ \E total \in 1..(MaxClassA + MaxClassB), dp \in DecimalPlaces :
         \E target \in 0..Pow10(dp) :
            /\ total_sample_size' = total
            /\ decimal_places' = dp
            /\ target_accuracy' = target
            /\ fp_i' = total
    /\ pc' = "find"
    /\ UNCHANGED <<inputs, min_max_values, enumeration, calls>>

\* No combinations exit.
exit_no_combinations ==
    /\ pc = "returned"
    /\ no_combinations(min_max_values)
    /\ pc' = "exit"
    /\ UNCHANGED <<inputs, decimal_places, target_accuracy, total_sample_size,
                   fp_i, min_max_values, enumeration, calls>>

\* Entry of find_matrices: the number of offsets.
find_matrices ==
    /\ pc = "returned"
    /\ ~no_combinations(min_max_values)
    /\ combinations' = combinations_of(min_max_values)
    /\ fm_i' = 0
    /\ pc' = "for"
    /\ UNCHANGED <<inputs, decimal_places, target_accuracy, total_sample_size,
                   fp_i, min_max_values, TP, FN, FP, TN, matrices, file,
                   enumerated, stage, calls>>

\* The base matrix of offset fm_i.
find_matrices_base ==
    /\ pc = "for"
    /\ fm_i < combinations
    /\ LET m == base_matrix(class_a_count, class_b_count, min_max_values, fm_i)
       IN  /\ TP' = m[1] /\ FN' = m[2] /\ FP' = m[3] /\ TN' = m[4]
           /\ Emit(m)
    /\ pc' = "while"
    /\ UNCHANGED <<inputs, decimal_places, target_accuracy, total_sample_size,
                   fp_i, min_max_values, combinations, fm_i, stage, calls>>

\* One transfer of the sweep: --TP, ++FN, --FP, ++TN.
find_matrices_transfer ==
    /\ pc = "while"
    /\ sweep_continues(TP, TN, class_b_count)
    /\ TP' = TP - 1 /\ FN' = FN + 1 /\ FP' = FP - 1 /\ TN' = TN + 1
    /\ Emit(<<TP - 1, FN + 1, FP - 1, TN + 1>>)
    /\ UNCHANGED <<inputs, decimal_places, target_accuracy, total_sample_size,
                   fp_i, min_max_values, combinations, fm_i, stage, calls, pc>>

\* The sweep of offset fm_i is over: next offset.
find_matrices_next ==
    /\ pc = "while"
    /\ ~sweep_continues(TP, TN, class_b_count)
    /\ fm_i' = fm_i + 1
    /\ pc' = "for"
    /\ UNCHANGED <<inputs, decimal_places, target_accuracy, total_sample_size,
                   fp_i, min_max_values, combinations, TP, FN, FP, TN,
                   matrices, file, enumerated, stage, calls>>

\* All offsets done: reverse_engineer closes the file, confusion_matrix
\* returns the vector to the filters.
find_matrices_return ==
    /\ pc = "for"
    /\ fm_i >= combinations
    /\ pc' = IF program = "confusion_matrix" THEN "filter" ELSE "done"
    /\ UNCHANGED <<inputs, decimal_places, target_accuracy, total_sample_size,
                   fp_i, min_max_values, enumeration, calls>>

target_of(metric_name) ==
    CASE metric_name = "sensitivity" -> target_sensitivity
      [] metric_name = "specificity" -> target_specificity
      [] metric_name = "f1" -> target_f1
      [] metric_name = "precision" -> target_precision

\* confusion_matrix: if (target != -1) matrices = check_metric(...), for the
\* four metrics in turn.
filter_metric ==
    /\ pc = "filter"
    /\ matrices' =
         IF target_of(Metrics[stage]) # Unconstrained(decimal_places)
           THEN check_metric_vector(matrices, target_of(Metrics[stage]),
                                    decimal_places, Metrics[stage])
           ELSE matrices
    /\ stage' = stage + 1
    /\ pc' = IF stage = Len(Metrics) THEN "done" ELSE "filter"
    /\ UNCHANGED <<inputs, decimal_places, target_accuracy, total_sample_size,
                   fp_i, min_max_values, combinations, fm_i, TP, FN, FP, TN,
                   file, enumerated, calls>>

Next ==
    \/ reverse_engineer_confusion_matrices
    \/ find_positives_vs_negatives_loop
    \/ find_positives_vs_negatives_return
    \/ exit_no_combinations
    \/ find_matrices
    \/ find_matrices_base
    \/ find_matrices_transfer
    \/ find_matrices_next
    \/ find_matrices_return
    \/ filter_metric

Spec == Init /\ [][Next]_vars

\* The range finder called repeatedly in one process.
NextCalls ==
    \/ reverse_engineer_confusion_matrices
    \/ find_positives_vs_negatives_loop
    \/ find_positives_vs_negatives_return
    \/ find_positives_vs_negatives_again

SpecCalls == InitCalls /\ [][NextCalls]_vars

----------------------------------------------------------------------------
(* Reference notions the properties are stated with *)

\* k / 10^dp is num / den rounded half away from zero (num >= 0, den > 0).
RoundsTo(num, den, dp, k) ==
    /\ 2 * k * den - den <= 2 * num * Pow10(dp)
    /\ 2 * num * Pow10(dp) < 2 * k * den + den

\* The correct counts of the run whose rounded accuracy is the target.
Matching ==
    {c \in 1..(class_a_count + class_b_count) :
        RoundsTo(c, class_a_count + class_b_count, decimal_places,
                 target_accuracy)}

Max(S) == CHOOSE x \in S : \A y \in S : y <= x
Min(S) == CHOOSE x \in S : \A y \in S : x <= y

\* A correct count inside the range the finder returned.
InRange(c) ==
    IF min_max_values[3] # -1
      THEN min_max_values[3] <= c /\ c <= min_max_values[1]
      ELSE c = min_max_values[1]

EnumerationDone == pc \in {"filter", "done"}

\* What the run outputs: the csv rows, or the filtered vector.
Output == IF program = "confusion_matrix" THEN matrices ELSE file

\* The denominator of a metric's formula.
Denominator(m, metric_name) ==
    CASE metric_name = "sensitivity" -> m[1] + m[2]
      [] metric_name = "specificity" -> m[4] + m[3]
      [] metric_name = "f1" -> 2 * m[1] + m[3] + m[2]
      [] metric_name = "precision" -> m[1] + m[3]

IsConstrained(metric_name) ==
    target_of(metric_name) # Unconstrained(decimal_places)

\* m matches every target that is constrained.
MatchesConstrained(m) ==
    \A k \in 1..Len(Metrics) :
        IsConstrained(Metrics[k]) =>
            double_eq(round_dp(metric(m, Metrics[k]), decimal_places),
                      target_of(Metrics[k]))

IsScenario ==
    /\ class_a_count = 10 /\ class_b_count = 10 /\ decimal_places = 2
    /\ target_accuracy = 75
    /\ \A k \in 1..Len(Metrics) : ~IsConstrained(Metrics[k])

----------------------------------------------------------------------------
(* Properties *)

\* C1: when find_matrices has returned, every matrix of non-negative counts
\* with TP+FN = class_a_count, FP+TN = class_b_count and TP+TN inside the
\* range the finder returned has been generated.
C1_Complete ==
    EnumerationDone =>
        \A tp \in 0..class_a_count, fp \in 0..class_b_count :
            InRange(tp + class_b_count - fp) =>
                <<tp, class_a_count - tp, fp, class_b_count - fp>>
                    \in Range(enumerated)

\* C2: every matrix find_matrices generates has TP, FN, FP and TN >= 0.
C2_NonNegative ==
    \A m \in Range(enumerated) :
        m[1] >= 0 /\ m[2] >= 0 /\ m[3] >= 0 /\ m[4] >= 0

\* C3: the accuracy (TP+TN)/(class_a_count+class_b_count) of every matrix
\* find_matrices generates rounds, half away from zero, to target_accuracy.
C3_AccuracyReproduced ==
    \A m \in Range(enumerated) :
        RoundsTo(m[1] + m[4], class_a_count + class_b_count, decimal_places,
                 target_accuracy)

C3_Witness ==
    /\ EnumerationDone
    /\ combinations > 1
    /\ Len(enumerated) > combinations

\* C4: when the first call of the range finder returns and some correct count
\* matches, max_correct is the largest and min_correct the smallest matching
\* count, each paired with its complement; with exactly one matching count
\* the second pair stays -1; no matching count lies outside the bounds.
C4_RangeCorrect ==
    (pc = "returned" /\ Matching # {}) =>
        /\ min_max_values[1] = Max(Matching)
        /\ min_max_values[2] = total_sample_size - Max(Matching)
        /\ IF Cardinality(Matching) = 1
             THEN min_max_values[3] = -1 /\ min_max_values[4] = -1
             ELSE /\ min_max_values[3] = Min(Matching)
                  /\ min_max_values[4] = total_sample_size - Min(Matching)
        /\ \A c \in Matching : InRange(c)

C4_Witness ==
    /\ pc = "returned"
    /\ Cardinality(Matching) >= 3

\* C5: at the end of either program the output is exactly the generated
\* matrices that match every constrained target, in order (all of them when
\* the four optional targets are -1).
C5_UnconstrainedNoOp ==
    pc = "done" => Output = SelectSeq(enumerated, MatchesConstrained)

\* C6: when no correct count matches, the finder returns max_correct = -1 and
\* the run ends at the exit without generating, filtering or writing a
\* matrix.
C6_NoMatch ==
    Matching = {} =>
        /\ pc \in {"main", "find", "returned", "exit"}
        /\ pc \in {"returned", "exit"} => min_max_values[1] = -1
        /\ enumerated = <<>> /\ matrices = <<>> /\ file = <<>>

C6_Witness ==
    /\ pc = "exit"
    /\ class_a_count = 3 /\ class_b_count = 3
    /\ decimal_places = 2 /\ target_accuracy = 99

\* C7 as claimed: in the scenario find_matrices generates exactly the five
\* matrices below, the sweep stopping after TN = 9.
C7_FiveMatrices ==
    (IsScenario /\ EnumerationDone) =>
        enumerated = << <<10, 0, 5, 5>>, <<9, 1, 4, 6>>, <<8, 2, 3, 7>>,
                        <<7, 3, 2, 8>>, <<6, 4, 1, 9>> >>

\* C7 as amended: in the scenario 15 is the only matching correct count
\* (one offset) and find_matrices generates exactly the six matrices below,
\* in this order, the sweep stopping after TN = 10.
C7_SixMatrices ==
    (IsScenario /\ EnumerationDone) =>
        /\ Matching = {15}
        /\ min_max_values = <<15, 5, -1, -1>>
        /\ combinations = 1
        /\ enumerated = << <<10, 0, 5, 5>>, <<9, 1, 4, 6>>, <<8, 2, 3, 7>>,
                           <<7, 3, 2, 8>>, <<6, 4, 1, 9>>, <<5, 5, 0, 10>> >>

C7_Witness ==
    /\ IsScenario
    /\ pc = "done"
    /\ Len(enumerated) = 6

\* C8: with a finite target for a metric, no matrix whose denominator for
\* that metric is zero is among the rows written by reverse_engineer, nor in
\* the vector of confusion_matrix once that metric's filter has run; and the
\* run goes on from every state short of its end.
C8_UndefinedMetric ==
    /\ \A k \in 1..Len(Metrics) :
          IsConstrained(Metrics[k]) =>
             /\ \A m \in Range(file) : Denominator(m, Metrics[k]) # 0
             /\ (program = "confusion_matrix" /\ stage > k) =>
                   \A m \in Range(matrices) : Denominator(m, Metrics[k]) # 0
    /\ pc \notin {"done", "exit"} => ENABLED Next

C8_Witness ==
    /\ pc = "done"
    /\ program = "confusion_matrix"
    /\ target_precision = 0
    /\ ~IsConstrained("sensitivity")
    /\ ~IsConstrained("specificity")
    /\ ~IsConstrained("f1")
    /\ \E m \in Range(enumerated) : m[1] + m[3] = 0

\* C9: every generated matrix has TP+FN = class_a_count and
\* FP+TN = class_b_count, and a transfer step leaves TP+TN and FN+FP as they
\* were.
C9_ClassSizes ==
    [][/\ \A m \in Range(enumerated') :
             m[1] + m[2] = class_a_count /\ m[3] + m[4] = class_b_count
       /\ (pc = "while" /\ pc' = "while") =>
             /\ TP' + TN' = TP + TN
             /\ FN' + FP' = FN + FP
             /\ enumerated' = Append(enumerated, <<TP', FN', FP', TN'>>)]_vars

C9_Witness ==
    /\ pc = "while"
    /\ fm_i >= 1
    /\ <<TP, FN, FP, TN>> #
          base_matrix(class_a_count, class_b_count, min_max_values, fm_i)

\* C10: whatever calls came before, a call of the range finder returns what
\* a first call with the same arguments returns.
C10_Reentrant ==
    pc = "returned" =>
        min_max_values =
            first_call(total_sample_size, target_accuracy, decimal_places)

====
